---- MODULE Spec2Model ----
(***************************************************************************)
(* A model of src/src/utilities.ts (Core.ts utility functions): the        *)
(* throttle wrapper, the cache (memoizing) wrapper, defer()                *)
(* and deepExtend.                                                         *)
(*                                                                         *)
(* The four components share no state, so each has its own specification   *)
(* (ThrottleSpec, CacheSpec, DeferSpec, MergeSpec) over the module's       *)
(* variables; Spec is their interleaving.                                  *)
(***************************************************************************)
EXTENDS Integers, Sequences, FiniteSets, TLC

VARIABLES
  \* ---- throttle(fn, t): the closure's state and the host's timers
  t,          \* the window passed to throttle (utilities.ts:108)
  delay,      \* `let delay`  (utilities.ts:109)
  repeat,     \* `let repeat` (utilities.ts:110)
  timers,     \* pending setTimeout callbacks: <<[due, args]>>, args is the closure's
  now,        \* the host clock, in ms
  \* ---- throttle: observations (what a test double for fn would record)
  ncalls,     \* number of calls made to the wrapper
  latest,     \* arguments of the most recent call to the wrapper
  fnCount,    \* number of invocations of fn
  lastFn,     \* the most recent invocation of fn
  prevFn,     \* the invocation of fn before that
  win,        \* the current (or last) cooldown window: calls and invocations in it
  \* ---- cache(fn): the closure's state
  cached,     \* `let cached = new Map<string, T>()` (utilities.ts:90)
  \* ---- cache: observations
  cacheCalls, \* number of calls made to the wrapper
  cacheLast,  \* the most recent call of the wrapper: arguments, key, what it did
  fnCalls,    \* per key, the number of invocations of fn
  fnThrows,   \* per key, the number of those that threw
  firstResult, \* per key, the result of the first invocation of fn that returned
  storedBy,    \* per key, the arguments of that invocation
  \* ---- defer(): the promise made at utilities.ts:68 and the one .catch derives from it
  state,      \* per promise: "pending", "fulfilled" or "rejected"
  value,      \* per promise: the value or the error it settled with
  reactions,  \* the handlers attached with .then / .catch, in the order attached
  jobs,       \* the host's microtask queue: indices of reactions whose job is queued
  tracked,    \* the host's rejection tracker: promises rejected with no handler on them
  reported,   \* the promises the host has reported as unhandled rejections
  \* ---- defer: observations
  settleCalls, \* number of calls made to resolve and reject
  firstSettle, \* the first of them
  lastSettle,  \* the most recent of them
  \* ---- deepExtend(obj1, obj2, arrayMergeFn): the objects it works on
  heap,       \* the objects and arrays, by address: [kind, elems, props]
  \* ---- deepExtend: observations
  merges,     \* number of calls of deepExtend
  lastMerge,  \* the most recent call: its source, its arrayMergeFn, and the target and
              \* the source as they were before it
  orig        \* the two sources as they were constructed

throttleVars == <<t, delay, repeat, timers, now, ncalls, latest, fnCount, lastFn, prevFn, win>>

cacheVars == <<cached, cacheCalls, cacheLast, fnCalls, fnThrows, firstResult, storedBy>>

deferVars == <<state, value, reactions, jobs, tracked, reported,
              settleCalls, firstSettle, lastSettle>>

mergeVars == <<heap, merges, lastMerge, orig>>

vars == <<throttleVars, cacheVars, deferVars, mergeVars>>

-----------------------------------------------------------------------------
(* Bounds *)

\* the wrapper is called at most MaxCalls times in a behaviour
MaxCalls == 4
\* the clock stops at MaxTime, unless a started timer is still to come due
MaxTime == 4
\* the positive window tried, next to the window 0
WindowMs == 2

\* the argument values a call passes to the wrapper
Args == {1, 2}
\* the windows throttle is constructed with: t = 0 is the default (utilities.ts:108)
Windows == {0, WindowMs}

\* the wrapper made by cache is called at most MaxCacheCalls times in a behaviour
MaxCacheCalls == 3

\* resolve and reject are called at most MaxSettleCalls times in a behaviour
MaxSettleCalls == 3
\* the callers attach at most MaxHandlers handlers to the promise defer returned
MaxHandlers == 3

\* deepExtend is called at most MaxMerges times in a behaviour
MaxMerges == 2

NoFn == [kind |-> "none", args |-> 0, at |-> 0, threw |-> FALSE, upto |-> 0]
NoWin == [calls |-> 0, imm |-> 0, trail |-> 0, open |-> FALSE]

-----------------------------------------------------------------------------
(* throttle *)

ThrottleInit ==
  /\ t \in Windows
  /\ delay = FALSE
  /\ repeat = FALSE
  /\ timers = <<>>
  /\ now = 0
  /\ ncalls = 0
  /\ latest = 0
  /\ fnCount = 0
  /\ lastFn = NoFn
  /\ prevFn = NoFn
  /\ win = NoWin

\* fn(...args) is entered: the invocation is observed whether it returns or throws
\* (upto: how many calls of the wrapper had been made by then)
InvokeFn(kind, a, threw) ==
  /\ fnCount' = fnCount + 1
  /\ prevFn' = lastFn
  /\ lastFn' = [kind |-> kind, args |-> a, at |-> now, threw |-> threw,
                upto |-> ncalls']

NoInvoke == UNCHANGED <<fnCount, lastFn, prevFn>>

\* the arguments the timer callback passes to fn: the `args` its closure captured,
\* those of the call that started the timer (utilities.ts:111, 118)
TimerArgs(a) == a

\* (mutant of SetTimeout: no timer is started)
Throttle_SetTimeout_None(a) == UNCHANGED timers
\* setTimeout(function () {...}, t) (utilities.ts:117-121)
SetTimeout(a) == timers' = Append(timers, [due |-> now + t, args |-> TimerArgs(a)])

\* (mutant of CallInDelay: the call during the cooldown is not recorded)
Throttle_CallInDelay_Drop == UNCHANGED <<delay, repeat, timers>> /\ NoInvoke
\* the wrapper called while `delay` is set (utilities.ts:112-113)
CallInDelay ==
  /\ repeat' = TRUE
  /\ UNCHANGED <<delay, timers>>
  /\ NoInvoke

\* the wrapper called while `delay` is clear (utilities.ts:114-121): fn runs first, and
\* an exception from it leaves the wrapper before `delay = true` and setTimeout
CallReady(a, threw) ==
  /\ InvokeFn("immediate", a, threw)
  /\ IF threw
       THEN UNCHANGED <<delay, timers>>
       ELSE delay' = TRUE /\ SetTimeout(a)
  /\ UNCHANGED repeat

\* one call of the wrapper returned by throttle (utilities.ts:111-123)
Call(a) ==
  /\ ncalls < MaxCalls
  /\ ncalls' = ncalls + 1
  /\ latest' = a
  /\ \E threw \in BOOLEAN :
       /\ IF delay THEN ~threw /\ CallInDelay ELSE CallReady(a, threw)
       /\ win' = IF ~delay /\ ~threw
                   THEN [calls |-> 1, imm |-> 1, trail |-> 0, open |-> TRUE]
                   ELSE IF win.open
                     THEN [win EXCEPT !.calls = @ + 1,
                                      !.imm = @ + (fnCount' - fnCount)]
                     ELSE win
  /\ UNCHANGED <<t, now>>
  /\ UNCHANGED <<cacheVars, deferVars, mergeVars>>

\* the timer callback (utilities.ts:117-121), run by the host no earlier than `due`;
\* an exception from fn leaves the callback before the two flags are cleared
Expire ==
  /\ timers # <<>>
  /\ Head(timers).due <= now
  /\ timers' = Tail(timers)
  /\ UNCHANGED <<t, now, ncalls, latest>>
  /\ \E threw \in BOOLEAN :
       IF repeat
         THEN /\ InvokeFn("trailing", Head(timers).args, threw)
              /\ IF threw
                   THEN UNCHANGED <<delay, repeat>>
                   ELSE delay' = FALSE /\ repeat' = FALSE
         ELSE /\ ~threw
              /\ NoInvoke
              /\ delay' = FALSE
              /\ repeat' = FALSE
  /\ win' = IF win.open
              THEN [win EXCEPT !.trail = @ + (fnCount' - fnCount), !.open = FALSE]
              ELSE win
  /\ UNCHANGED <<cacheVars, deferVars, mergeVars>>

\* time passes on the host; the clock runs on past MaxTime while a timer is not yet due
Tick ==
  /\ now < MaxTime \/ (timers # <<>> /\ Head(timers).due > now)
  /\ now' = now + 1
  /\ UNCHANGED <<t, delay, repeat, timers, ncalls, latest, fnCount, lastFn, prevFn, win>>
  /\ UNCHANGED <<cacheVars, deferVars, mergeVars>>

ThrottleNext ==
  \/ \E a \in Args : Call(a)
  \/ Expire
  \/ Tick


-----------------------------------------------------------------------------
(* cache *)

\* argument values: numbers and strings (a string is the sequence of its characters)
Num(n) == [isNum |-> TRUE, n |-> n, s |-> <<>>]
Str(s) == [isNum |-> FALSE, n |-> 0, s |-> s]

\* the argument lists the wrapper is called with
ArgLists ==
  { <<Num(1), Num(2)>>,
    <<Num(1), Num(3)>>,
    <<Str(<<"1">>), Num(2)>>,
    <<Str(<<"a", "-", "-", "b">>)>>,
    <<Str(<<"a">>), Str(<<"b">>)>> }

\* what an invocation of fn may return: any value, `undefined` among them
Results == {"undefined", "r1", "r2"}
\* ... or it throws
Throw == "throw"

DigitChar == <<"0", "1", "2", "3", "4", "5", "6", "7", "8", "9">>

\* the decimal text of a natural number
RECURSIVE Digits(_)
Digits(n) ==
  IF n < 10 THEN <<DigitChar[n + 1]>>
            ELSE Digits(n \div 10) \o <<DigitChar[(n % 10) + 1]>>

\* the string form Array.prototype.join gives an element (utilities.ts:92)
StringOf(v) == IF v.isNum THEN Digits(v.n) ELSE v.s

\* args.join(sep) (utilities.ts:92)
RECURSIVE Join(_, _)
Join(args, sep) ==
  IF args = <<>> THEN <<>>
  ELSE IF Len(args) = 1 THEN StringOf(args[1])
  ELSE StringOf(args[1]) \o sep \o Join(Tail(args), sep)

\* (mutant of Separator: a separator no argument of ArgLists contains)
Cache_Separator_Comma == <<",">>
\* '--' (utilities.ts:92)
Separator == <<"-", "-">>

\* `let argString = args.join('--')` (utilities.ts:92)
ArgString(args) == Join(args, Separator)

AllKeys == { ArgString(a) : a \in ArgLists }

\* (mutant of HasKey: the test `cached.get(k) !== undefined` in place of has)
Cache_HasKey_GetDefined(m, k) == k \in DOMAIN m /\ m[k] # "undefined"
\* cached.has(k) (utilities.ts:93)
HasKey(m, k) == k \in DOMAIN m

\* (mutant of MapSet: the entry is not stored)
Cache_MapSet_Skip(m, k, v) == m
\* cached.set(k, v) (utilities.ts:93)
MapSet(m, k, v) == [x \in (DOMAIN m) \cup {k} |-> IF x = k THEN v ELSE m[x]]

\* (mutant of FnThrew: the key is reserved before fn runs and stays when fn throws)
Cache_FnThrew_KeepsPlaceholder(k) == cached' = MapSet(cached, k, "undefined")
\* fn(...args) throws inside `cached.set(argString, fn(...args))` (utilities.ts:93):
\* the exception leaves the wrapper before set is called
FnThrew(k) == cached' = cached

NoCacheCall ==
  [n |-> 0, args |-> <<>>, key |-> <<>>, hit |-> FALSE, invoked |-> FALSE,
   fnArgs |-> <<>>, threw |-> FALSE, ret |-> "none"]

CacheInit ==
  /\ cached = [k \in {} |-> "undefined"]
  /\ cacheCalls = 0
  /\ cacheLast = NoCacheCall
  /\ fnCalls = [k \in AllKeys |-> 0]
  /\ fnThrows = [k \in AllKeys |-> 0]
  /\ firstResult = [k \in {} |-> "undefined"]
  /\ storedBy = [k \in {} |-> <<>>]

\* one call of the wrapper returned by cache (utilities.ts:91-95)
CacheCall(args) ==
  /\ cacheCalls < MaxCacheCalls
  /\ cacheCalls' = cacheCalls + 1
  /\ LET k == ArgString(args) IN
       IF HasKey(cached, k)
         THEN /\ cached' = cached
              /\ UNCHANGED <<fnCalls, fnThrows, firstResult, storedBy>>
              /\ cacheLast' = [n |-> cacheCalls + 1, args |-> args, key |-> k,
                               hit |-> TRUE, invoked |-> FALSE, fnArgs |-> <<>>,
                               threw |-> FALSE, ret |-> cached[k]]
         ELSE \E out \in Results \cup {Throw} :
              /\ fnCalls' = [fnCalls EXCEPT ![k] = @ + 1]
              /\ IF out = Throw
                   THEN /\ FnThrew(k)
                        /\ fnThrows' = [fnThrows EXCEPT ![k] = @ + 1]
                        /\ UNCHANGED <<firstResult, storedBy>>
                        /\ cacheLast' = [n |-> cacheCalls + 1, args |-> args, key |-> k,
                                         hit |-> FALSE, invoked |-> TRUE, fnArgs |-> args,
                                         threw |-> TRUE, ret |-> "none"]
                   ELSE /\ cached' = MapSet(cached, k, out)
                        /\ UNCHANGED fnThrows
                        /\ firstResult' = IF k \in DOMAIN firstResult
                                            THEN firstResult
                                            ELSE MapSet(firstResult, k, out)
                        /\ storedBy' = IF k \in DOMAIN storedBy
                                         THEN storedBy
                                         ELSE [x \in (DOMAIN storedBy) \cup {k} |->
                                                 IF x = k THEN args ELSE storedBy[x]]
                        /\ cacheLast' = [n |-> cacheCalls + 1, args |-> args, key |-> k,
                                         hit |-> FALSE, invoked |-> TRUE, fnArgs |-> args,
                                         threw |-> FALSE,
                                         ret |-> IF k \in DOMAIN cached'
                                                   THEN cached'[k] ELSE "undefined"]
  /\ UNCHANGED <<throttleVars, deferVars, mergeVars>>

CacheNext == \E args \in ArgLists : CacheCall(args)

-----------------------------------------------------------------------------
(* defer *)

\* the values passed to resolve and to reject
Payloads == {5, 6}

\* the promise constructed at utilities.ts:68, and the promise `promise.catch(...)`
\* returns at utilities.ts:74
Promises == {"promise", "chained"}

\* (mutant of Returned: defer hands out the result of promise.catch(...))
Defer_Returned_Chained == "chained"
\* the promise in the object defer returns (utilities.ts:78)
Returned == "promise"

\* (mutant of Settled: the resolving functions do not check for an earlier call)
Defer_Settled_Never(pr) == FALSE
\* a promise that has left "pending": its resolve and reject (utilities.ts:69-70) do
\* nothing more
Settled(pr) == state[pr] # "pending"

\* the handler defer itself attaches (utilities.ts:74-76)
InternalCatch ==
  [on |-> "promise", kind |-> "catch", internal |-> TRUE, status |-> "waiting",
   arg |-> 0, late |-> FALSE]

\* (mutant of InitialReactions: defer without its promise.catch(...))
Defer_InitialReactions_None == <<>>
\* the handlers on the promise when defer returns (utilities.ts:73-78)
InitialReactions == <<InternalCatch>>

NoSettle == [fn |-> "none", value |-> 0]

\* how the host's tracker names a promise: one of Promises, or the promise that
\* .then / .catch returned to the caller for the i-th handler
Named(pr) == [p |-> pr, i |-> 0]
Derived(i) == [p |-> "derived", i |-> i]

DeferInit ==
  /\ state = [pr \in Promises |-> "pending"]
  /\ value = [pr \in Promises |-> 0]
  /\ reactions = InitialReactions
  /\ jobs = <<>>
  /\ tracked = {}
  /\ reported = {}
  /\ settleCalls = 0
  /\ firstSettle = NoSettle
  /\ lastSettle = NoSettle

\* the reactions of promise pr that wait for it to settle, in the order attached
Waiting(rs, pr) ==
  SelectSeq([i \in 1..Len(rs) |-> i],
            LAMBDA i : rs[i].on = pr /\ rs[i].status = "waiting")

\* promise pr settles: a job is queued for each of its waiting reactions; a promise
\* rejected with no handler attached by then / catch goes to the host's tracker
SettlePromise(pr, st, v, rs, js, tr) ==
  /\ state' = [state EXCEPT ![pr] = st]
  /\ value' = [value EXCEPT ![pr] = v]
  /\ tracked' = IF st = "rejected" /\ ~(\E i \in 1..Len(rs) : rs[i].on = pr)
                  THEN tr \cup {Named(pr)} ELSE tr
  /\ reactions' = [i \in 1..Len(rs) |->
                     IF rs[i].on = pr /\ rs[i].status = "waiting"
                       THEN [rs[i] EXCEPT !.status = "queued"] ELSE rs[i]]
  /\ jobs' = js \o Waiting(rs, pr)

\* a call of resolve or reject is observed
ObserveSettle(fn, v) ==
  /\ settleCalls < MaxSettleCalls
  /\ settleCalls' = settleCalls + 1
  /\ lastSettle' = [fn |-> fn, value |-> v]
  /\ firstSettle' = IF settleCalls = 0 THEN [fn |-> fn, value |-> v] ELSE firstSettle

\* resolve(v), the promise's own resolving function (utilities.ts:69)
Resolve(v) ==
  /\ ObserveSettle("resolve", v)
  /\ IF Settled("promise")
       THEN UNCHANGED <<state, value, reactions, jobs, tracked>>
       ELSE SettlePromise("promise", "fulfilled", v, reactions, jobs, tracked)
  /\ UNCHANGED reported
  /\ UNCHANGED <<throttleVars, cacheVars, mergeVars>>

\* reject(e), the promise's own rejecting function (utilities.ts:70)
Reject(e) ==
  /\ ObserveSettle("reject", e)
  /\ IF Settled("promise")
       THEN UNCHANGED <<state, value, reactions, jobs, tracked>>
       ELSE SettlePromise("promise", "rejected", e, reactions, jobs, tracked)
  /\ UNCHANGED reported
  /\ UNCHANGED <<throttleVars, cacheVars, mergeVars>>

\* a caller attaches a handler to the promise defer returned: .then(h) or .catch(h);
\* on a settled promise its job is queued at once, and a tracked promise is handled
Attach(kind) ==
  /\ Len(reactions) < MaxHandlers + 1
  /\ LET r == [on |-> Returned, kind |-> kind, internal |-> FALSE,
               status |-> IF state[Returned] = "pending" THEN "waiting" ELSE "queued",
               arg |-> 0, late |-> state["promise"] # "pending"]
     IN /\ reactions' = Append(reactions, r)
        /\ jobs' = IF r.status = "queued" THEN Append(jobs, Len(reactions) + 1) ELSE jobs
  /\ tracked' = tracked \ {Named(Returned)}
  /\ UNCHANGED <<state, value, reported, settleCalls, firstSettle, lastSettle>>
  /\ UNCHANGED <<throttleVars, cacheVars, mergeVars>>

\* the host runs the first queued job: the handler runs if it is of the kind the
\* promise settled with, and is passed over otherwise; the promise that then / catch
\* returned is fulfilled with what the handler returns, and takes the state of the
\* promise when the handler is passed over. The handler of defer itself returns the
\* error (utilities.ts:75). Nothing is attached to the promises the callers' then /
\* catch returned, so one that is rejected goes to the host's tracker
RunJob ==
  /\ jobs # <<>>
  /\ LET i == Head(jobs)
         r == reactions[i]
         runs == (r.kind = "catch" /\ state[r.on] = "rejected")
                 \/ (r.kind = "then" /\ state[r.on] = "fulfilled")
         rs == [reactions EXCEPT ![i] =
                  [r EXCEPT !.status = IF runs THEN "ran" ELSE "passed",
                            !.arg = IF runs THEN value[r.on] ELSE 0]]
         out == IF runs THEN "fulfilled" ELSE state[r.on]
     IN IF r.internal
          THEN SettlePromise("chained", out, value[r.on], rs, Tail(jobs), tracked)
          ELSE /\ reactions' = rs
               /\ jobs' = Tail(jobs)
               /\ tracked' = IF out = "rejected"
                               THEN tracked \cup {Derived(i)} ELSE tracked
               /\ UNCHANGED <<state, value>>
  /\ UNCHANGED <<reported, settleCalls, firstSettle, lastSettle>>
  /\ UNCHANGED <<throttleVars, cacheVars, mergeVars>>

\* the microtask queue is empty: the host reports the promises its tracker still
\* holds as unhandled rejections (the process-level diagnostic)
ReportUnhandled ==
  /\ jobs = <<>>
  /\ tracked # {}
  /\ reported' = reported \cup tracked
  /\ tracked' = {}
  /\ UNCHANGED <<state, value, reactions, jobs, settleCalls, firstSettle, lastSettle>>
  /\ UNCHANGED <<throttleVars, cacheVars, mergeVars>>

DeferNext ==
  \/ \E v \in Payloads : Resolve(v)
  \/ \E e \in Payloads : Reject(e)
  \/ \E kind \in {"then", "catch"} : Attach(kind)
  \/ RunJob
  \/ ReportUnhandled

-----------------------------------------------------------------------------
(* deepExtend *)

\* ---- the structures deepExtend is given, as values: a scalar, a sequence, a mapping
S(n) == [k |-> "s", n |-> n, e |-> <<>>, f |-> <<>>]
A(e) == [k |-> "a", n |-> 0, e |-> e, f |-> <<>>]
O(f) == [k |-> "o", n |-> 0, e |-> <<>>, f |-> f]

PropKeys == {"x", "y"}

Scalars == {S(1), S(2)}
Arrays == {A(<<S(1), S(2)>>), A(<<S(3), S(4)>>)}
Leaves == Scalars \cup Arrays
\* the mappings nested in a target or a source
Inner == {O([key \in {"x"} |-> v]) : v \in Leaves} \cup {O([key \in {"y"} |-> S(2)])}
\* the targets and sources: x holds any value, y (when there) a scalar
Tops ==
  {O([key \in {"x"} |-> v]) : v \in Leaves \cup Inner}
    \cup {O([key \in PropKeys |-> IF key = "x" THEN v ELSE S(2)]) : v \in Leaves \cup Inner}

\* ---- the heap: what a property or an element holds is a scalar or a reference
Sc(n) == [ref |-> FALSE, v |-> n]
Ref(a) == [ref |-> TRUE, v |-> a]

\* Object.keys lists integer keys first, in ascending order, then the others
PropOrder == DigitChar \o <<"x", "y">>

IsIndex(key) == \E d \in 1..Len(DigitChar) : DigitChar[d] = key
IndexOf(key) == (CHOOSE d \in 1..Len(DigitChar) : DigitChar[d] = key) - 1

\* Object.keys(obj) (utilities.ts:34): of an array, its indices and then its other
\* properties
OwnKeys(node) ==
  (IF node.kind = "arr" THEN [d \in 1..Len(node.elems) |-> DigitChar[d]] ELSE <<>>)
    \o SelectSeq(PropOrder, LAMBDA key : key \in DOMAIN node.props)

\* `i in obj1` (utilities.ts:35, 37), for the keys objects hold themselves
HasProp(node, key) ==
  \/ key \in DOMAIN node.props
  \/ node.kind = "arr" /\ IsIndex(key) /\ IndexOf(key) < Len(node.elems)

\* obj[i]
GetProp(node, key) ==
  IF node.kind = "arr" /\ IsIndex(key)
    THEN node.elems[IndexOf(key) + 1]
    ELSE node.props[key]

\* obj1[i] = v (utilities.ts:36, 41); an index past the end of an array leaves holes
PutProp(node, key, v) ==
  IF node.kind = "arr" /\ IsIndex(key)
    THEN [node EXCEPT !.elems =
            [d \in 1..(IF IndexOf(key) < Len(node.elems)
                         THEN Len(node.elems) ELSE IndexOf(key) + 1) |->
               IF d = IndexOf(key) + 1 THEN v
               ELSE IF d <= Len(node.elems) THEN node.elems[d] ELSE Sc(0)]]
    ELSE [node EXCEPT !.props =
            [x \in (DOMAIN node.props) \cup {key} |->
               IF x = key THEN v ELSE node.props[x]]]

\* Array.isArray(v) (utilities.ts:35)
IsArray(h, v) == v.ref /\ h[v.v].kind = "arr"
\* `v instanceof Object` (utilities.ts:37-38): true of every object, arrays included
\* (mutant of InstanceOfObject: plain objects only)
Merge_InstanceOfObject_PlainOnly(h, v) == v.ref /\ h[v.v].kind = "obj"
InstanceOfObject(h, v) == v.ref

\* (mutant of Concat: the source's elements first)
Merge_Concat_SourceFirst(xs, ys) == ys \o xs
\* a.concat(b) (utilities.ts:33): a new array, a's elements and then b's
Concat(xs, ys) == xs \o ys

\* the array merge functions a call passes: none (the default, utilities.ts:33), or
\* (a, b) => b
MergeFns == {"concat", "replace"}

\* arrayMergeFn(obj1[i], obj2[i]) (utilities.ts:36), on the arrays at a1 and a2: the
\* heap after it and the value it returned
ApplyMergeFn(h, fn, a1, a2) ==
  IF fn = "concat"
    THEN [h |-> Append(h, [kind |-> "arr", elems |-> Concat(h[a1].elems, h[a2].elems),
                           props |-> <<>>]),
          v |-> Ref(Len(h) + 1)]
    ELSE [h |-> h, v |-> Ref(a2)]

\* the arrayMergeFn of the recursive call `deepExtend(obj1[i], obj2[i])`
\* (utilities.ts:39): no third argument is passed, so it is the default again
RecursionFn(fn) == "concat"

\* the loop of deepExtend(obj1, obj2, arrayMergeFn) over the keys ks of obj2
\* (utilities.ts:34-43), on the objects at o1 and o2: the heap after it
RECURSIVE DeepExtendKeys(_, _, _, _, _)
DeepExtendKeys(h, o1, o2, ks, fn) ==
  IF ks = <<>> THEN h
  ELSE
    LET i == Head(ks)
        in1 == HasProp(h[o1], i)
        v2 == GetProp(h[o2], i)
        h1 ==
          IF in1 /\ IsArray(h, GetProp(h[o1], i)) /\ IsArray(h, v2)
            THEN LET r == ApplyMergeFn(h, fn, GetProp(h[o1], i).v, v2.v)
                 IN [r.h EXCEPT ![o1] = PutProp(r.h[o1], i, r.v)]
          ELSE IF in1 /\ InstanceOfObject(h, GetProp(h[o1], i)) /\ InstanceOfObject(h, v2)
            THEN DeepExtendKeys(h, GetProp(h[o1], i).v, v2.v, OwnKeys(h[v2.v]),
                                RecursionFn(fn))
          ELSE [h EXCEPT ![o1] = PutProp(h[o1], i, v2)]
    IN DeepExtendKeys(h1, o1, o2, Tail(ks), fn)

\* deepExtend(obj1, obj2, arrayMergeFn) (utilities.ts:32-44)
DeepExtend(h, o1, o2, fn) == DeepExtendKeys(h, o1, o2, OwnKeys(h[o2]), fn)

\* ---- construction of a structure on the heap: the heap after it and the value
RECURSIVE AllocTree(_, _)
RECURSIVE AllocAll(_, _, _)
\* vs: the values of the structures trs, allocated in order
AllocAll(h, trs, vs) ==
  IF trs = <<>> THEN [h |-> h, vs |-> vs]
  ELSE LET r == AllocTree(h, Head(trs))
       IN AllocAll(r.h, Tail(trs), Append(vs, r.v))

AllocTree(h, tr) ==
  IF tr.k = "s" THEN [h |-> h, v |-> Sc(tr.n)]
  ELSE
    LET ks == SelectSeq(PropOrder, LAMBDA key : key \in DOMAIN tr.f)
        es == AllocAll(h, tr.e, <<>>)
        ps == AllocAll(es.h, [j \in 1..Len(ks) |-> tr.f[ks[j]]], <<>>)
        node == [kind |-> IF tr.k = "a" THEN "arr" ELSE "obj",
                 elems |-> es.vs,
                 props |-> [key \in DOMAIN tr.f |->
                              ps.vs[CHOOSE j \in 1..Len(ks) : ks[j] = key]]]
    IN [h |-> Append(ps.h, node), v |-> Ref(Len(ps.h) + 1)]

\* ---- the structure a value of the heap stands for
RECURSIVE TreeOf(_, _)
TreeOf(h, v) ==
  IF ~v.ref THEN S(v.v)
  ELSE LET node == h[v.v]
       IN [k |-> IF node.kind = "arr" THEN "a" ELSE "o",
           n |-> 0,
           e |-> [d \in 1..Len(node.elems) |-> TreeOf(h, node.elems[d])],
           f |-> [key \in DOMAIN node.props |-> TreeOf(h, node.props[key])]]

\* the addresses reachable from a value
RECURSIVE Reach(_, _)
Reach(h, v) ==
  IF ~v.ref THEN {}
  ELSE {v.v}
         \cup UNION {Reach(h, h[v.v].elems[d]) : d \in 1..Len(h[v.v].elems)}
         \cup UNION {Reach(h, h[v.v].props[key]) : key \in DOMAIN h[v.v].props}

\* the heap holding a target and two sources, and where they are
Built(ta, tb, tc) == AllocAll(<<>>, <<ta, tb, tc>>, <<>>)

MergeInit ==
  \E ta, tb, tc \in Tops :
    /\ heap = [h |-> Built(ta, tb, tc).h, roots |-> Built(ta, tb, tc).vs]
    /\ orig = <<tb, tc>>
    /\ merges = 0
    /\ lastMerge = [n |-> 0, src |-> 0, fn |-> "none", a |-> S(0), b |-> S(0),
                    shared |-> FALSE]

Target == heap.roots[1]
Source(j) == heap.roots[j + 1]

\* one call deepExtend(target, source j, fn), or deepExtend(target, source j)
Merge(j, fn) ==
  /\ merges < MaxMerges
  /\ merges' = merges + 1
  /\ heap' = [heap EXCEPT !.h = DeepExtend(heap.h, Target.v, Source(j).v, fn)]
  /\ lastMerge' = [n |-> merges + 1, src |-> j, fn |-> fn,
                   a |-> TreeOf(heap.h, Target), b |-> TreeOf(heap.h, Source(j)),
                   shared |-> Reach(heap.h, Target) \cap Reach(heap.h, Source(j)) # {}]
  /\ UNCHANGED orig
  /\ UNCHANGED <<throttleVars, cacheVars, deferVars>>

MergeNext == \E j \in {1, 2}, fn \in MergeFns : Merge(j, fn)

-----------------------------------------------------------------------------
(* Specifications: the components share no state, each runs on its own *)

\* for the other components, deepExtend is given one target and one source over
IdleMergeInit ==
  /\ heap = [h |-> Built(O([key \in {"x"} |-> S(1)]), O([key \in {"x"} |-> S(1)]),
                         O([key \in {"x"} |-> S(1)])).h,
             roots |-> Built(O([key \in {"x"} |-> S(1)]), O([key \in {"x"} |-> S(1)]),
                             O([key \in {"x"} |-> S(1)])).vs]
  /\ orig = <<O([key \in {"x"} |-> S(1)]), O([key \in {"x"} |-> S(1)])>>
  /\ merges = 0
  /\ lastMerge = [n |-> 0, src |-> 0, fn |-> "none", a |-> S(0), b |-> S(0),
                  shared |-> FALSE]

Init == ThrottleInit /\ CacheInit /\ DeferInit /\ MergeInit

Next == ThrottleNext \/ CacheNext \/ DeferNext \/ MergeNext

Spec == Init /\ [][Next]_vars

\* throttle on its own
ThrottleOnlyInit == ThrottleInit /\ CacheInit /\ DeferInit /\ IdleMergeInit

ThrottleSpec == ThrottleOnlyInit /\ [][ThrottleNext]_vars

\* the host runs a timer's callback once it is due, and time passes
ThrottleFairSpec ==
  ThrottleOnlyInit /\ [][ThrottleNext]_vars /\ WF_vars(Expire) /\ WF_vars(Tick)

\* for the other components, one throttler is as good as another
InitOneThrottler == ThrottleOnlyInit /\ t = 0

\* deepExtend on its own
MergeOnlyInit == ThrottleInit /\ t = 0 /\ CacheInit /\ DeferInit /\ MergeInit

MergeSpec == MergeOnlyInit /\ [][MergeNext]_vars

CacheSpec == InitOneThrottler /\ [][CacheNext]_vars

DeferSpec == InitOneThrottler /\ [][DeferNext]_vars

\* the host drains the microtask queue: a queued job is run
DeferFairSpec == InitOneThrottler /\ [][DeferNext]_vars /\ WF_vars(RunJob)

-----------------------------------------------------------------------------
(* throttle: the claims *)

\* a step that is one call of the wrapper
IsCall == ncalls' = ncalls + 1
\* a step in which fn is invoked
IsInvoke == fnCount' = fnCount + 1

\* C1: with t > 0, a call made while READY (delay clear) invokes fn exactly once,
\* at once and with the call's arguments, and leaves the throttler in COOLDOWN
\* (delay set) with one timer of t ms started; a call made in COOLDOWN invokes
\* nothing and starts no timer.
C1_CallByState ==
  [][ (IsCall /\ t > 0) =>
        IF ~delay
          THEN /\ IsInvoke
               /\ lastFn'.kind = "immediate"
               /\ lastFn'.args = latest'
               /\ lastFn'.at = now
               /\ delay'
               /\ Len(timers') = Len(timers) + 1
               /\ timers'[Len(timers')].due = now + t
          ELSE /\ fnCount' = fnCount
               /\ timers' = timers ]_vars

\* C1, for the calls in which fn returns: the same statement, which the code meets.
C1_CallByState_FnReturns ==
  [][ (IsCall /\ t > 0 /\ ~(IsInvoke /\ lastFn'.threw)) =>
        IF ~delay
          THEN /\ IsInvoke
               /\ lastFn'.kind = "immediate"
               /\ lastFn'.args = latest'
               /\ delay'
               /\ Len(timers') = Len(timers) + 1
               /\ timers'[Len(timers')].due = now + t
          ELSE /\ fnCount' = fnCount
               /\ timers' = timers ]_vars

\* C2: a trailing invocation (the timer callback finding a call recorded) passes fn
\* the arguments of the latest call made to the wrapper in that window.
C2_TrailingGetsLatestArgs ==
  [][ (IsInvoke /\ lastFn'.kind = "trailing") => lastFn'.args = latest ]_vars

\* C3: with t = 0 every call invokes fn at once with its own arguments, so that
\* fn has been invoked n times when the n-th call returns.
C3_ZeroWindowAlwaysInvokes ==
  [][ (IsCall /\ t = 0) =>
        /\ IsInvoke
        /\ lastFn'.kind = "immediate"
        /\ lastFn'.args = latest'
        /\ fnCount' >= ncalls' ]_vars

\* C4: two successive invocations of fn, immediate or trailing, are at least t ms
\* apart. Stated for the invocations that return: the claim covers them, and an
\* invocation that throws is the case of C1.
C4_InvocationsAWindowApart ==
  (prevFn.kind # "none" /\ ~prevFn.threw /\ ~lastFn.threw)
    => lastFn.at - prevFn.at >= t

\* C5: of the k calls of one cooldown window (the call that starts it and those made
\* until its timer expires), exactly one invokes fn at once; when the timer expires
\* fn is invoked once more if k >= 2 and not at all if k = 1.
C5_InvocationsPerWindow ==
  (t > 0 /\ win.calls >= 1) =>
     /\ win.imm = 1
     /\ win.open => win.trail = 0
     /\ ~win.open => win.trail = (IF win.calls >= 2 THEN 1 ELSE 0)

\* three calls in one window of t > 0 ms, its timer expired: two invocations
C5_Witness ==
  t > 0 /\ ~win.open /\ win.calls = 3 /\ win.imm + win.trail = 2

-----------------------------------------------------------------------------
(* cache: the claims *)

\* a step that is one call of the wrapper
IsCacheCall == cacheCalls' = cacheCalls + 1

Key12 == <<"1", "-", "-", "2">>
Key13 == <<"1", "-", "-", "3">>

\* what a call does, by whether its key is cached: a hit returns the cached result
\* and does not invoke fn; a miss invokes fn once with the call's arguments
CallByKey(c, k) ==
  IF k \in DOMAIN cached
    THEN ~c.invoked /\ c.ret = cached[k] /\ fnCalls' = fnCalls /\ cached' = cached
    ELSE c.invoked /\ c.fnArgs = c.args /\ fnCalls'[k] = fnCalls[k] + 1

\* C6: a call whose key (the arguments joined by '--') is cached returns the cached
\* result without invoking fn; a call whose key is not cached invokes fn once with
\* the call's arguments, stores the result under the key and returns it (read as:
\* the result, if fn returns one); so fn is invoked exactly once per distinct key.
C6_OncePerKey ==
  [][ IsCacheCall =>
        LET c == cacheLast'
            k == Join(c.args, <<"-", "-">>)
        IN /\ CallByKey(c, k)
           /\ (k \notin DOMAIN cached /\ ~c.threw)
                => (k \in DOMAIN cached' /\ cached'[k] = c.ret)
           /\ fnCalls'[k] = 1 ]_vars

\* C6 as amended: as C6, but fn is invoked exactly once per distinct key only
\* counting the invocations that return: fn returns once for every cached key and
\* never for another key, and each invocation that threw stored nothing.
C6_OncePerKey_FnReturns ==
  [][ IsCacheCall =>
        LET c == cacheLast'
            k == Join(c.args, <<"-", "-">>)
        IN /\ CallByKey(c, k)
           /\ (k \notin DOMAIN cached /\ ~c.threw)
                => (k \in DOMAIN cached' /\ cached'[k] = c.ret)
           /\ \A x \in AllKeys :
                fnCalls'[x] - fnThrows'[x] = (IF x \in DOMAIN cached' THEN 1 ELSE 0) ]_vars

\* three calls, the last one (1,3), with (1,2) cached before it and fn invoked
\* twice in all: one of the three was a hit
C6_Witness ==
  /\ cacheCalls = 3
  /\ cacheLast.args = <<Num(1), Num(3)>> /\ cacheLast.invoked /\ ~cacheLast.threw
  /\ Key12 \in DOMAIN cached /\ Key13 \in DOMAIN cached
  /\ fnCalls[Key12] = 1 /\ fnCalls[Key13] = 1
  /\ \A x \in AllKeys \ {Key12, Key13} : fnCalls[x] = 0

\* C7: no call removes or changes an entry of the cache, and every call that
\* returns gives the result of the first invocation of fn that returned for its key,
\* whatever fn returned then (`undefined` included).
C7_EntriesNeverChange ==
  [][ /\ \A k \in DOMAIN cached : k \in DOMAIN cached' /\ cached'[k] = cached[k]
      /\ (IsCacheCall /\ ~cacheLast'.threw) =>
            /\ cacheLast'.key \in DOMAIN firstResult'
            /\ cacheLast'.ret = firstResult'[cacheLast'.key] ]_vars

\* a later call is answered from the cache with a stored `undefined`
C7_Witness ==
  cacheLast.n >= 2 /\ cacheLast.hit /\ cacheLast.ret = "undefined"

\* C8: a call in which fn throws ends with that exception and leaves the cache as it
\* was, with no entry for the key; the next call with the same key invokes fn again.
C8_ThrowIsNotCached ==
  [][ IsCacheCall =>
        /\ cacheLast'.threw =>
             /\ cached' = cached
             /\ cacheLast'.key \notin DOMAIN cached'
             /\ cacheLast'.ret = "none"
        /\ (cacheLast.threw /\ cacheLast'.key = cacheLast.key) => cacheLast'.invoked ]_vars

\* fn threw for a key and the next call with that key invoked fn again
C8_Witness ==
  /\ cacheLast.n >= 2 /\ cacheLast.invoked
  /\ fnThrows[cacheLast.key] >= 1
  /\ fnCalls[cacheLast.key] >= 2
  /\ cacheLast.key \in DOMAIN cached

-----------------------------------------------------------------------------
(* defer: the claims *)

\* the handlers the callers attached to the promise defer returned
CallerHandlers == { i \in 1..Len(reactions) : ~reactions[i].internal }

\* C9: the first call of resolve or reject decides the promise (fulfilled with its
\* value, or rejected with its error), and no later call changes state or value.
C9_FirstCallDecides ==
  [][ /\ settleCalls' >= 1 =>
           /\ state'["promise"] =
                (IF firstSettle'.fn = "resolve" THEN "fulfilled" ELSE "rejected")
           /\ value'["promise"] = firstSettle'.value
      /\ state["promise"] # "pending" =>
           /\ state'["promise"] = state["promise"]
           /\ value'["promise"] = value["promise"] ]_vars

\* resolve(5), then a call of reject, then resolve(6): the promise is fulfilled with 5
C9_Witness ==
  /\ settleCalls = 3
  /\ firstSettle = [fn |-> "resolve", value |-> 5]
  /\ lastSettle = [fn |-> "resolve", value |-> 6]
  /\ state["promise"] = "fulfilled" /\ value["promise"] = 5

\* what C10 says of every state: once the returned promise is rejected with e, each
\* failure handler attached to it has its job queued or has run, with e, and no
\* success handler attached to it has run
RejectionReachesHandlers ==
  state["promise"] = "rejected" =>
    \A i \in CallerHandlers :
      /\ reactions[i].kind = "catch" =>
           \/ reactions[i].status = "queued"
           \/ reactions[i].status = "ran" /\ reactions[i].arg = value["promise"]
      /\ reactions[i].kind = "then" => reactions[i].status # "ran"

\* C10: after reject(e) every failure handler attached to the returned promise,
\* before the call or after it, is run with e, and no success handler attached to
\* it is run: the handler defer attaches itself takes nothing from them.
C10_RejectionReachesHandlers ==
  /\ []RejectionReachesHandlers
  /\ \A i \in 1..MaxHandlers + 1 :
       (state["promise"] = "rejected" /\ i \in CallerHandlers
          /\ reactions[i].kind = "catch")
         ~> (i \in CallerHandlers /\ reactions[i].status = "ran"
               /\ reactions[i].arg = value["promise"])

\* a rejected promise, a failure handler attached before the reject and one attached
\* after it, both run with the error, and a success handler passed over
C10_Witness ==
  /\ state["promise"] = "rejected"
  /\ \E i, j, k \in CallerHandlers :
       /\ reactions[i].kind = "catch" /\ ~reactions[i].late
       /\ reactions[i].status = "ran" /\ reactions[i].arg = value["promise"]
       /\ reactions[j].kind = "catch" /\ reactions[j].late
       /\ reactions[j].status = "ran" /\ reactions[j].arg = value["promise"]
       /\ reactions[k].kind = "then" /\ reactions[k].status = "passed"

\* the promise defer returned has a rejection handler on it
ReturnedHasRejectionHandler ==
  \E i \in 1..Len(reactions) :
    reactions[i].on = Returned /\ reactions[i].kind = "catch"

-----------------------------------------------------------------------------
(* deepExtend: claims C12 to C15 *)

\* the target after the last call
After == TreeOf(heap.h, Target)

\* the last call was deepExtend(a, b, fn) on structures that shared nothing
Merged(fn) == lastMerge.n > 0 /\ lastMerge.fn = fn /\ ~lastMerge.shared

\* the value the contract gives a key that held av in the target and bv in the
\* source: the concatenation of two sequences, the merge of two mappings, else bv
RECURSIVE MergedValue(_, _)
MergedValue(av, bv) ==
  IF av.k = "a" /\ bv.k = "a" THEN A(av.e \o bv.e)
  ELSE IF av.k = "o" /\ bv.k = "o"
    THEN O([key \in (DOMAIN av.f) \cup (DOMAIN bv.f) |->
              IF key \notin DOMAIN bv.f THEN av.f[key]
              ELSE IF key \notin DOMAIN av.f THEN bv.f[key]
              ELSE MergedValue(av.f[key], bv.f[key])])
  ELSE bv

\* C12: after deepExtend(a, b) on acyclic a and b that share no structure, every
\* key of b is a key of a holding b's value for that key (the merged value where
\* both sides had a sequence or both a mapping), and every key of a that is not a
\* key of b holds exactly the value it held before the call.
C12_KeysOfSourceAndFrame ==
  Merged("concat") =>
    /\ \A key \in DOMAIN lastMerge.b.f :
         /\ key \in DOMAIN After.f
         /\ After.f[key] =
              IF key \in DOMAIN lastMerge.a.f
                THEN MergedValue(lastMerge.a.f[key], lastMerge.b.f[key])
                ELSE lastMerge.b.f[key]
    /\ \A key \in (DOMAIN lastMerge.a.f) \ (DOMAIN lastMerge.b.f) :
         /\ key \in DOMAIN After.f
         /\ After.f[key] = lastMerge.a.f[key]

\* a sequence in the one and a mapping in the other
SequenceAgainstMapping(av, bv) == {av.k, bv.k} = {"a", "o"}

\* C12 where no key, at any depth, holds a sequence on one side and a mapping on
\* the other (the case of C14)
C12_KeysOfSourceAndFrame_NoSequenceAgainstMapping ==
  (\E key \in (DOMAIN lastMerge.a.f) \cap (DOMAIN lastMerge.b.f) :
      SequenceAgainstMapping(lastMerge.a.f[key], lastMerge.b.f[key]))
    \/ C12_KeysOfSourceAndFrame

\* the keys target and source both held before the last call
Overlap == (DOMAIN lastMerge.a.f) \cap (DOMAIN lastMerge.b.f)

\* what the array merge function fn returns for the sequences av and bv
MergeFnResult(fn, av, bv) == IF fn = "concat" THEN av.e \o bv.e ELSE bv.e

\* the function passed is the one used for the overlapping keys of the target
\* itself
CustomMergeAtTop ==
  Merged("replace") =>
    \A key \in Overlap :
      (lastMerge.a.f[key].k = "a" /\ lastMerge.b.f[key].k = "a")
        => After.f[key].e = MergeFnResult("replace", lastMerge.a.f[key],
                                          lastMerge.b.f[key])

\* ... and for the overlapping keys of the mappings nested in it
CustomMergeNested ==
  Merged("replace") =>
    \A key \in Overlap :
      (lastMerge.a.f[key].k = "o" /\ lastMerge.b.f[key].k = "o") =>
        \A k2 \in (DOMAIN lastMerge.a.f[key].f) \cap (DOMAIN lastMerge.b.f[key].f) :
          (lastMerge.a.f[key].f[k2].k = "a" /\ lastMerge.b.f[key].f[k2].k = "a")
            => /\ k2 \in DOMAIN After.f[key].f
               /\ After.f[key].f[k2].e =
                    MergeFnResult("replace", lastMerge.a.f[key].f[k2],
                                  lastMerge.b.f[key].f[k2])

\* C13: the array-combination function passed to deepExtend(target, source,
\* arrayMerge) is the one used for every overlapping key whose two values are both
\* sequences, at every depth: also for sequences inside nested mappings reached by
\* recursion, the target value becomes arrayMerge(targetValue, sourceValue) and not
\* the default concatenation.
C13_CustomMergeAtEveryDepth == CustomMergeAtTop /\ CustomMergeNested

\* C14: when target and source hold values of different kinds under the same key
\* (sequence against mapping, mapping against sequence, scalar against mapping or
\* sequence, or the reverse), the source wins: target[key] becomes source[key] as
\* a whole, with no recursion into the two values and no key of the old target
\* value surviving.
C14_KindMismatchSourceWins ==
  (lastMerge.n > 0 /\ ~lastMerge.shared) =>
    \A key \in Overlap :
      lastMerge.a.f[key].k # lastMerge.b.f[key].k
        => After.f[key] = lastMerge.b.f[key]

\* C14 for a scalar against a mapping or a sequence, or the reverse
ScalarMismatchSourceWins ==
  (lastMerge.n > 0 /\ ~lastMerge.shared) =>
    \A key \in Overlap :
      (lastMerge.a.f[key].k # lastMerge.b.f[key].k
         /\ "s" \in {lastMerge.a.f[key].k, lastMerge.b.f[key].k})
        => After.f[key] = lastMerge.b.f[key]

\* C15: with no array-combination function supplied, deepExtend replaces an
\* overlapping pair of sequences by their concatenation, the target's elements in
\* order followed by the source's elements in order, keeping duplicates:
\* {x: [1,2]} merged with {x: [3,4]} gives x = [1,2,3,4].
C15_DefaultIsConcatenation ==
  (lastMerge.n > 0 /\ lastMerge.fn = "concat") =>
    \A key \in Overlap :
      (lastMerge.a.f[key].k = "a" /\ lastMerge.b.f[key].k = "a")
        => /\ After.f[key].k = "a"
           /\ After.f[key].e = lastMerge.a.f[key].e \o lastMerge.b.f[key].e
           /\ After.f[key].f = <<>>

C15_Witness ==
  /\ lastMerge.fn = "concat"
  /\ lastMerge.a = O([key \in {"x"} |-> A(<<S(1), S(2)>>)])
  /\ lastMerge.b = O([key \in {"x"} |-> A(<<S(3), S(4)>>)])
  /\ After = O([key \in {"x"} |-> A(<<S(1), S(2), S(3), S(4)>>)])

\* duplicates are kept: [1,2] and [1,2] give [1,2,1,2]
C15_DuplicatesKept ==
  /\ lastMerge.fn = "concat"
  /\ lastMerge.a = O([key \in {"x"} |-> A(<<S(1), S(2)>>)])
  /\ lastMerge.b = O([key \in {"x"} |-> A(<<S(1), S(2)>>)])
  /\ After = O([key \in {"x"} |-> A(<<S(1), S(2), S(1), S(2)>>)])

-----------------------------------------------------------------------------
(* throttle: claims C16 and C17 *)

\* COOLDOWN exactly when one timer is outstanding, never more than one, and a
\* trailing call recorded only in COOLDOWN
CooldownIffOneTimer ==
  /\ Len(timers) <= 1
  /\ delay <=> Len(timers) = 1
  /\ repeat => delay

\* C16: in every reachable state of a throttle wrapper, also after fn has thrown
\* during an immediate or a trailing invocation, the throttler is in COOLDOWN
\* exactly when one timer is outstanding (never more than one), and a trailing call
\* is recorded only while in COOLDOWN; so it can never stay in COOLDOWN with no
\* timer left to release it.
C16_CooldownIffOneTimer == CooldownIffOneTimer

\* C16 as long as no trailing invocation has thrown (after one that has, fn is
\* never invoked again, so it stays the last invocation)
C16_CooldownIffOneTimer_NoTrailingThrow ==
  (lastFn.kind = "trailing" /\ lastFn.threw) \/ CooldownIffOneTimer

\* the state a throwing trailing invocation leaves: COOLDOWN for good
StuckInCooldown == delay /\ timers = <<>>

\* a trailing invocation has thrown: the throttler is stuck (C16)
TrailingThrew == lastFn.kind = "trailing" /\ lastFn.threw

\* C17: no call to a throttle wrapper is lost: under fair timer expiry and with fn
\* returning normally, every call to the wrapper is followed, at the moment of the
\* call or later, by at least one invocation of fn. (Stated for every behaviour:
\* the n-th call is followed by an invocation entered when n or more calls had
\* been made, unless a trailing invocation threw before.)
C17_NoCallLost ==
  \A n \in 1..MaxCalls :
    (ncalls = n) ~> (lastFn.upto >= n \/ TrailingThrew)

\* a call made during the cooldown has been served by the trailing invocation
C17_Witness ==
  /\ ncalls >= 2
  /\ lastFn.kind = "trailing"
  /\ ~lastFn.threw
  /\ lastFn.upto = ncalls
  /\ ~delay

-----------------------------------------------------------------------------
(* deepExtend: claim C18 *)

\* C18: deepExtend writes only into target: for any sequence of deepExtend calls,
\* a structure that is passed only as source (never as target) keeps all its keys
\* and values at every depth, also when a later call merges a third structure into
\* the same target.
C18_SourcesUnchanged ==
  \A j \in {1, 2} : TreeOf(heap.h, Source(j)) = orig[j]

\* C18 for one call: the source of the first call is as it was
SourceUnchangedByOneCall ==
  merges = 1 => \A j \in {1, 2} : TreeOf(heap.h, Source(j)) = orig[j]

\* the route to a changed source that needs neither a sequence nor an array merge
\* function: deepExtend(a, b) stores b.x itself in a = {x: 1}, and deepExtend(a, c)
\* then merges c.x = {y: 2} into it
AliasedSourceChanged ==
  /\ merges = 2
  /\ orig[1] = O([key \in {"x"} |-> O([k2 \in {"x"} |-> S(1)])])
  /\ orig[2] = O([key \in {"x"} |-> O([k2 \in {"y"} |-> S(2)])])
  /\ lastMerge.src = 2
  /\ lastMerge.a = orig[1]
  /\ TreeOf(heap.h, Source(1)) =
       O([key \in {"x"} |-> O([k2 \in PropKeys |-> IF k2 = "x" THEN S(1) ELSE S(2)])])

-----------------------------------------------------------------------------
(* cache: claim C19 *)

\* pairs of argument lists that differ and join to the same string: the single
\* argument 'a--b' and the two arguments 'a', 'b'; the numbers 1, 2 and the string
\* '1' with the number 2
Collisions ==
  LET ab1 == <<Str(<<"a", "-", "-", "b">>)>>
      ab2 == <<Str(<<"a">>), Str(<<"b">>)>>
      n12 == <<Num(1), Num(2)>>
      s12 == <<Str(<<"1">>), Num(2)>>
  IN { [first |-> ab1, second |-> ab2, key |-> <<"a", "-", "-", "b">>],
       [first |-> ab2, second |-> ab1, key |-> <<"a", "-", "-", "b">>],
       [first |-> n12, second |-> s12, key |-> <<"1", "-", "-", "2">>],
       [first |-> s12, second |-> n12, key |-> <<"1", "-", "-", "2">>] }

\* the last call was c.second, and an earlier call c.first stored its result
CalledAfter(c) ==
  /\ cacheLast.args = c.second
  /\ c.key \in DOMAIN storedBy
  /\ storedBy[c.key] = c.first

\* C19: the memoizer key is the arguments' string forms joined by the fixed
\* separator '--', so two calls whose argument lists differ but join to the same
\* string (for example the single argument 'a--b' and the two arguments 'a', 'b')
\* share one cache entry: the second call returns the first call's result and fn
\* is not invoked for it.
C19_CollidingCallsShareEntry ==
  \A c \in Collisions :
    CalledAfter(c) =>
      /\ cacheLast.key = c.key
      /\ cacheLast.hit
      /\ ~cacheLast.invoked
      /\ cacheLast.ret = firstResult[c.key]
      /\ fnCalls[c.key] - fnThrows[c.key] = 1

C19_Witness ==
  /\ CalledAfter([first |-> <<Str(<<"a", "-", "-", "b">>)>>,
                  second |-> <<Str(<<"a">>), Str(<<"b">>)>>,
                  key |-> <<"a", "-", "-", "b">>])
  /\ cacheLast.hit
  /\ cacheLast.ret = "r1"
  /\ cached = [k \in {<<"a", "-", "-", "b">>} |-> "r1"]

====
